---- MODULE Spec2Model ----
(***************************************************************************)
(* Fragment-stage helpers of the splat renderer: the packed colour decode  *)
(* (ShaderCommon.h) and the fragment alpha, the debug overlays, the        *)
(* continuous and the dithered shading (SplatProcessing.h).                *)
(*                                                                         *)
(* Numbers.  half and float values are modelled as exact rationals, a pair *)
(* <<n, d>> in lowest terms with d > 0.  Decimal literals of the source    *)
(* (0.05h, 0.013, 0.1, 0.4h ...) are taken at their decimal value.  The    *)
(* local coordinates, opacities and screen positions the model draws are   *)
(* multiples of 1/2 or 1/4, which half and float hold exactly.             *)
(***************************************************************************)
EXTENDS Integers, Sequences, FiniteSets, TLC

VARIABLES
    pc,                     \* "start", or the name of the function that has returned
    in,                     \* FragmentIn of the fragment being shaded
    screenPos,              \* float2 screenPos of shadeSplatDithered / bayerDither
    alpha,                  \* local  half alpha
    rgb,                    \* local  half3 rgb (after the debug overlays)
    pos,                    \* local  int2 pos of bayerDither
    threshold,              \* local  float threshold of shadeSplatDithered
    discarded,              \* discard_fragment() was called
    ret,                    \* the value returned
    usePackedColors,        \* function constant 10
    hasPackedColorsBuffer,  \* function constant 11
    splats,                 \* constant Splat*  (the color field of each splat)
    packedColors,           \* constant PackedColor*, <<>> when no buffer is bound
    splatIndex,             \* uint splatIndex of getSplatColor
    packedRead,             \* getSplatColor dereferenced packedColors
    quantized,              \* the quantised colour <<R, G, B, A>> the host packed
    packed                  \* uint packed of unpackSnorm10a2ToHalf

vars == <<pc, in, screenPos, alpha, rgb, pos, threshold, discarded, ret,
          usePackedColors, hasPackedColorsBuffer, splats, packedColors,
          splatIndex, packedRead, quantized, packed>>

----------------------------------------------------------------------------
(* Bounds of the model *)

\* local coordinates are k/2 with k in -MaxCoord .. MaxCoord
MaxCoord == 6
\* screen positions of the dither check are k/2 with k in -MaxScreen .. MaxScreen
MaxScreen == 17
\* splat ids of the dither check are 0 .. MaxSplatID
MaxSplatID == 80
\* number of splats in the colour buffers
NumSplats == 2

----------------------------------------------------------------------------
(* Rational arithmetic *)

Abs(n) == IF n < 0 THEN -n ELSE n

RECURSIVE GCD(_, _)
GCD(a, b) == IF b = 0 THEN a ELSE GCD(b, a % b)

Rat(n, d) == LET g == GCD(Abs(n), d) IN <<n \div g, d \div g>>

Zero == <<0, 1>>
One == <<1, 1>>

RAdd(a, b) == Rat(a[1] * b[2] + b[1] * a[2], a[2] * b[2])
RNeg(a) == <<-a[1], a[2]>>
RMul(a, b) == Rat(a[1] * b[1], a[2] * b[2])
RLess(a, b) == a[1] * b[2] < b[1] * a[2]
RLeq(a, b) == a[1] * b[2] <= b[1] * a[2]

\* floor(x)
floor(a) == a[1] \div a[2]
\* fract(x) = x - floor(x)
fract(a) == RAdd(a, <<-floor(a), 1>>)
\* clamp(x, lo, hi) = min(max(x, lo), hi)
clamp(x, lo, hi) ==
    LET m == IF RLess(x, lo) THEN lo ELSE x
    IN IF RLess(hi, m) THEN hi ELSE m
\* dot(a, b) of two half2
dot(a, b) == RAdd(RMul(a[1], b[1]), RMul(a[2], b[2]))

\* width of int and uint
IntBits == 32

\* a & b on two's-complement integers, bit by bit from bit 0; the remaining
\* bits are 0 once either operand has none left
RECURSIVE AndBits(_, _, _)
AndBits(a, b, n) ==
    IF n = 0 \/ a = 0 \/ b = 0 THEN 0
    ELSE (a % 2) * (b % 2) + 2 * AndBits(a \div 2, b \div 2, n - 1)

BitAnd(a, b) == AndBits(a, b, IntBits)

\* fast::exp(x) for x <= 0: exactly 1 at 0, otherwise the 12-bit fixed-point
\* value of (1 - z + z^2/2 - z^3/6)^16 with z = -x/16
FastExp(x) ==
    IF x[1] = 0 THEN One
    ELSE LET S == 4096
             z == ((-x[1]) * (S \div 16)) \div x[2]
             t0 == S - z + (z * z) \div (2 * S) - (((z * z) \div S) * z) \div (6 * S)
             sq(t) == (t * t) \div S
         IN Rat(sq(sq(sq(sq(t0)))), S)

----------------------------------------------------------------------------
(* ShaderCommon.h *)

kBoundsRadius == 3
kBoundsRadiusSquared == <<kBoundsRadius * kBoundsRadius, 1>>

\* A uint is held as its 32-bit pattern read as a two's-complement integer
\* (the value minus 2^32 when bit 31 is set).  x >> k followed by a mask of
\* at most 32 - k bits gives the same bits for the logical shift of the
\* source and for the floor division used here.
ShiftRight(x, k) == x \div (2 ^ k)

\* float(n) / 511.0f of a 10-bit field read as two's complement
snorm10(field) == IF field >= 512 THEN Rat(field - 1024, 511) ELSE Rat(field, 511)

\* variant: the 10-bit fields read as unsigned
unpackSnorm10a2ToHalfUnsigned(word) ==
    LET r == BitAnd(word, 1023)
        g == BitAnd(ShiftRight(word, 10), 1023)
        b == BitAnd(ShiftRight(word, 20), 1023)
        a == BitAnd(ShiftRight(word, 30), 3)
    IN <<Rat(r, 511), Rat(g, 511), Rat(b, 511), Rat(a, 3)>>

unpackSnorm10a2ToHalf(word) ==
    LET r == BitAnd(word, 1023)
        g == BitAnd(ShiftRight(word, 10), 1023)
        b == BitAnd(ShiftRight(word, 20), 1023)
        a == BitAnd(ShiftRight(word, 30), 3)
    IN <<snorm10(r), snorm10(g), snorm10(b), Rat(a, 3)>>

\* variant: the packed path taken on usePackedColors alone
packedPathUseOnly(use, has) == use

\* usePackedColors && hasPackedColorsBuffer
packedPath(use, has) == use /\ has

\* packedColors[splatIndex].packedColor; reading a buffer that is not bound
\* or past its end returns whatever lies there
readPackedColor(buffer, index, garbage) ==
    IF index + 1 \in DOMAIN buffer THEN buffer[index + 1] ELSE garbage

getSplatColor(index, splatBuffer, packedBuffer, use, has, garbage) ==
    IF packedPath(use, has)
    THEN unpackSnorm10a2ToHalf(readPackedColor(packedBuffer, index, garbage))
    ELSE splatBuffer[index + 1]

\* The host-side encoder of the packed scheme: R, G, B as 10-bit
\* two's-complement fields at bit offsets 0, 10, 20 and A as a 2-bit field at
\* bit offset 30 (held as the 32-bit pattern, see ShiftRight).
packSnorm10a2(q) ==
    (q[1] % 1024) + (q[2] % 1024) * 1024 + (q[3] % 1024) * (2 ^ 20)
        + (IF q[4] >= 2 THEN q[4] - 4 ELSE q[4]) * (2 ^ 30)

----------------------------------------------------------------------------
(* SplatProcessing.h *)

DebugFlagOverdraw == 1
DebugFlagLodTint == 2

\* variant: no cutoff at the bounds radius
splatFragmentAlphaNoCutoff(relativePosition, splatAlpha) ==
    LET negativeMagnitudeSquared == RNeg(dot(relativePosition, relativePosition))
    IN RMul(FastExp(RMul(<<1, 2>>, negativeMagnitudeSquared)), splatAlpha)

splatFragmentAlpha(relativePosition, splatAlpha) ==
    LET negativeMagnitudeSquared == RNeg(dot(relativePosition, relativePosition))
    IN IF RLess(negativeMagnitudeSquared, RNeg(kBoundsRadiusSquared))
       THEN Zero
       ELSE RMul(FastExp(RMul(<<1, 2>>, negativeMagnitudeSquared)), splatAlpha)

lodTintForBand(band) ==
    CASE band = 0 -> <<<<2, 5>>, <<1, 1>>, <<3, 5>>>>
      [] band = 1 -> <<<<1, 1>>, <<17, 20>>, <<2, 5>>>>
      [] band = 2 -> <<<<1, 1>>, <<9, 20>>, <<7, 20>>>>
      [] OTHER -> <<<<3, 5>>, <<7, 10>>, <<1, 1>>>>

\* variant: the overdraw intensity without the 0.05 bias
overdrawIntensityNoBias(a) == clamp(a, <<1, 20>>, One)

\* the intensity of the overdraw overlay
overdrawIntensity(a) == clamp(RAdd(a, <<1, 20>>), <<1, 20>>, One)

\* variant: the LOD tint applied after the overdraw overlay
debugRgbTintLast(fin, a) ==
    LET intensity == overdrawIntensity(a)
        grey == IF BitAnd(fin.debugFlags, DebugFlagOverdraw) # 0
                THEN <<intensity, intensity, intensity>>
                ELSE <<fin.color[1], fin.color[2], fin.color[3]>>
    IN IF BitAnd(fin.debugFlags, DebugFlagLodTint) # 0
       THEN lodTintForBand(fin.lodBand)
       ELSE grey

\* the rgb of shadeSplat and shadeSplatDithered after the two debug overlays
debugRgb(fin, a) ==
    LET tinted == IF BitAnd(fin.debugFlags, DebugFlagLodTint) # 0
                  THEN lodTintForBand(fin.lodBand)
                  ELSE <<fin.color[1], fin.color[2], fin.color[3]>>
    IN IF BitAnd(fin.debugFlags, DebugFlagOverdraw) # 0
       THEN LET intensity == overdrawIntensity(a)
            IN <<intensity, intensity, intensity>>
       ELSE tinted

\* half4(alpha * rgb, alpha)
shadeSplatResult(c, a) == <<RMul(a, c[1]), RMul(a, c[2]), RMul(a, c[3]), a>>

\* half4(rgb, 1.0h)
shadeSplatDitheredResult(c) == <<c[1], c[2], c[3], One>>

\* numerators of bayerMatrix, entries are n/64
bayerMatrix ==
    << 0, 32,  8, 40,  2, 34, 10, 42,
      48, 16, 56, 24, 50, 18, 58, 26,
      12, 44,  4, 36, 14, 46,  6, 38,
      60, 28, 52, 20, 62, 30, 54, 22,
       3, 35, 11, 43,  1, 33,  9, 41,
      51, 19, 59, 27, 49, 17, 57, 25,
      15, 47,  7, 39, 13, 45,  5, 37,
      63, 31, 55, 23, 61, 29, 53, 21 >>

\* bayerMatrix[i]; an index outside the array reads whatever lies there
bayerEntry(i, garbage) ==
    IF i \in 0 .. 63 THEN Rat(bayerMatrix[i + 1], 64) ELSE garbage

\* variant: % 8 (remainder of the truncating division) in place of & 7
RemTrunc(a, m) == IF a >= 0 THEN a % m ELSE -((-a) % m)
bayerPosRem(sp) == <<RemTrunc(floor(sp[1]), 8), RemTrunc(floor(sp[2]), 8)>>

\* int2 pos = int2(floor(screenPos)) & 7
bayerPos(sp) == <<BitAnd(floor(sp[1]), 7), BitAnd(floor(sp[2]), 7)>>

\* pos.y * 8 + pos.x
bayerIndex(p) == p[2] * 8 + p[1]

\* fract(float(splatID) * 0.013) * 0.1
temporalNoise(splatID) == RMul(fract(RMul(<<splatID, 1>>, <<13, 1000>>)), <<1, 10>>)

\* variant: the threshold returned without the final fract
bayerDitherNoWrap(sp, splatID, garbage) ==
    RAdd(bayerEntry(bayerIndex(bayerPos(sp)), garbage), temporalNoise(splatID))

bayerDither(sp, splatID, garbage) ==
    fract(RAdd(bayerEntry(bayerIndex(bayerPos(sp)), garbage), temporalNoise(splatID)))

\* variant: alpha <= threshold
alphaTestFailsOrEqual(a, t) == RLeq(a, t)

\* the alpha test of shadeSplatDithered: float(alpha) < threshold
alphaTestFails(a, t) == RLess(a, t)

----------------------------------------------------------------------------
(* Inputs *)

Half4(r, g, b, a) == <<r, g, b, a>>

Coords == { Rat(k, 2) : k \in -MaxCoord .. MaxCoord }
Opacities == { Zero, <<1, 2>>, One }
BaseRgb == << One, <<1, 2>>, <<1, 4>> >>
LodBands == 0 .. 3
DebugFlagValues == 0 .. 3

\* fragments of the shading check: pixel centres of the pixels -1 and 0 in x
\* and y (Bayer cells 7 and 0), splat ids with temporal noise 0 and 0.0988
FragScreenPositions == { <<x, y>> : x \in { <<-1, 2>>, <<1, 2>> }, y \in { <<-1, 2>>, <<1, 2>> } }
FragSplatIDs == { 0, 76 }

\* FragmentIn, with the splatID that shadeSplatDithered reads as in.splatID
FragmentIns(ids) ==
    [ relativePosition : Coords \X Coords,
      color : { Half4(BaseRgb[1], BaseRgb[2], BaseRgb[3], a) : a \in Opacities },
      lodBand : LodBands,
      debugFlags : DebugFlagValues,
      splatID : ids ]

\* the fragment of the dither check: only its splatID is read
DitherFragmentIns ==
    [ relativePosition : { <<Zero, Zero>> },
      color : { Half4(BaseRgb[1], BaseRgb[2], BaseRgb[3], One) },
      lodBand : { 0 },
      debugFlags : { 0 },
      splatID : 0 .. MaxSplatID ]

DitherScreenPositions ==
    { <<Rat(x, 2), Rat(y, 2)>> : x \in -MaxScreen .. MaxScreen, y \in -MaxScreen .. MaxScreen }

\* what a read outside bayerMatrix may return
GarbageFloats == { Zero, <<3, 2>> }

NoFragment ==
    [ relativePosition |-> <<Zero, Zero>>, color |-> Half4(Zero, Zero, Zero, Zero),
      lodBand |-> 0, debugFlags |-> 0, splatID |-> 0 ]

\* quantised colours: every value of the 10-bit field of one channel with the
\* other two fields at the ends and the middle of the signed range
EdgeFields == { -512, 0, 511 }
AllFields == -512 .. 511
QuantizedColor(channel, f, e1, e2, a) ==
    CASE channel = 1 -> <<f, e1, e2, a>>
      [] channel = 2 -> <<e1, f, e2, a>>
      [] OTHER -> <<e1, e2, f, a>>

\* buffers of the colour lookup
SplatColors == { Half4(One, <<1, 2>>, <<1, 4>>, One), Half4(Zero, <<1, 8>>, One, <<1, 2>>) }
SampleWords == { packSnorm10a2(q) : q \in { <<511, 0, -511, 3>>, <<-1, 255, 0, 1>>, <<0, 0, 0, 0>> } }

----------------------------------------------------------------------------
(* Initial states *)

LocalsInit ==
    /\ pc = "start"
    /\ alpha = Zero
    /\ rgb = <<Zero, Zero, Zero>>
    /\ pos = <<0, 0>>
    /\ threshold = Zero
    /\ discarded = FALSE
    /\ ret = <<>>
    /\ packedRead = FALSE

NoFragmentInit ==
    /\ in = NoFragment
    /\ screenPos = <<Zero, Zero>>

NoColorInit ==
    /\ usePackedColors = FALSE
    /\ hasPackedColorsBuffer = FALSE
    /\ splats = <<>>
    /\ packedColors = <<>>
    /\ splatIndex = 0

NoPackedInit ==
    /\ quantized = <<0, 0, 0, 0>>
    /\ packed = 0

FragInit ==
    /\ LocalsInit
    /\ NoColorInit
    /\ NoPackedInit
    /\ in \in FragmentIns(FragSplatIDs)
    /\ screenPos \in FragScreenPositions

DitherInit ==
    /\ LocalsInit
    /\ NoColorInit
    /\ NoPackedInit
    /\ in \in DitherFragmentIns
    /\ screenPos \in DitherScreenPositions

UnpackInit ==
    /\ LocalsInit
    /\ NoFragmentInit
    /\ NoColorInit
    /\ \E channel \in 1 .. 3, f \in AllFields, e1 \in EdgeFields, e2 \in EdgeFields, a \in 0 .. 3 :
          quantized = QuantizedColor(channel, f, e1, e2, a)
    /\ packed = packSnorm10a2(quantized)

\* hasPackedColorsBuffer is set by the host when it binds a packed buffer
ColorInit ==
    /\ LocalsInit
    /\ NoFragmentInit
    /\ NoPackedInit
    /\ usePackedColors \in BOOLEAN
    /\ hasPackedColorsBuffer \in BOOLEAN
    /\ splats \in [1 .. NumSplats -> SplatColors]
    /\ packedColors \in IF hasPackedColorsBuffer
                        THEN [1 .. NumSplats -> SampleWords]
                        ELSE { <<>> }
    /\ splatIndex \in 0 .. NumSplats - 1

----------------------------------------------------------------------------
(* Colour functions *)

fragVars == <<in, screenPos, alpha, rgb, pos, threshold, discarded>>

UnpackSnorm10a2ToHalf ==
    /\ pc = "start"
    /\ pc' = "unpackSnorm10a2ToHalf"
    /\ ret' = unpackSnorm10a2ToHalf(packed)
    /\ UNCHANGED <<fragVars, usePackedColors, hasPackedColorsBuffer, splats,
                   packedColors, splatIndex, packedRead, quantized, packed>>

GetSplatColor ==
    /\ pc = "start"
    /\ pc' = "getSplatColor"
    /\ packedRead' = packedPath(usePackedColors, hasPackedColorsBuffer)
    /\ \E garbage \in SampleWords :
          ret' = getSplatColor(splatIndex, splats, packedColors,
                               usePackedColors, hasPackedColorsBuffer, garbage)
    /\ UNCHANGED <<fragVars, usePackedColors, hasPackedColorsBuffer, splats,
                   packedColors, splatIndex, quantized, packed>>

UnpackNext == UnpackSnorm10a2ToHalf
SpecUnpack == UnpackInit /\ [][UnpackNext]_vars

ColorNext == GetSplatColor
SpecColor == ColorInit /\ [][ColorNext]_vars

----------------------------------------------------------------------------
(* Fragment functions *)

colorVars == <<usePackedColors, hasPackedColorsBuffer, splats, packedColors,
               splatIndex, packedRead, quantized, packed>>

SplatFragmentAlpha ==
    /\ pc = "start"
    /\ pc' = "splatFragmentAlpha"
    /\ ret' = splatFragmentAlpha(in.relativePosition, in.color[4])
    /\ UNCHANGED <<in, screenPos, alpha, rgb, pos, threshold, discarded, colorVars>>

ShadeSplat ==
    /\ pc = "start"
    /\ pc' = "shadeSplat"
    /\ alpha' = splatFragmentAlpha(in.relativePosition, in.color[4])
    /\ rgb' = debugRgb(in, alpha')
    /\ ret' = shadeSplatResult(rgb', alpha')
    /\ UNCHANGED <<in, screenPos, pos, threshold, discarded, colorVars>>

ShadeSplatDithered ==
    /\ pc = "start"
    /\ pc' = "shadeSplatDithered"
    /\ alpha' = splatFragmentAlpha(in.relativePosition, in.color[4])
    /\ rgb' = debugRgb(in, alpha')
    /\ pos' = bayerPos(screenPos)
    /\ \E garbage \in GarbageFloats :
          threshold' = bayerDither(screenPos, in.splatID, garbage)
    /\ discarded' = alphaTestFails(alpha', threshold')
    /\ ret' = shadeSplatDitheredResult(rgb')
    /\ UNCHANGED <<in, screenPos, colorVars>>

BayerDither ==
    /\ pc = "start"
    /\ pc' = "bayerDither"
    /\ pos' = bayerPos(screenPos)
    /\ \E garbage \in GarbageFloats :
          ret' = bayerDither(screenPos, in.splatID, garbage)
    /\ UNCHANGED <<in, screenPos, alpha, rgb, threshold, discarded, colorVars>>

FragNext == SplatFragmentAlpha \/ ShadeSplat \/ ShadeSplatDithered
SpecFrag == FragInit /\ [][FragNext]_vars

DitherNext == BayerDither
SpecDither == DitherInit /\ [][DitherNext]_vars

----------------------------------------------------------------------------
(* Properties *)

OverdrawSet == (in.debugFlags \div DebugFlagOverdraw) % 2 = 1
LodTintSet == (in.debugFlags \div DebugFlagLodTint) % 2 = 1

\* |p|^2 > n for a pair p of rationals, in integers
MagnitudeSquaredExceeds(p, n) ==
    LET x == p[1]
        y == p[2]
    IN x[1] * x[1] * y[2] * y[2] + y[1] * y[1] * x[2] * x[2] > n * x[2] * x[2] * y[2] * y[2]

\* clamp(a + 0.05, 0.05, 1) written out
Grey(a) ==
    LET s == RAdd(a, <<1, 20>>)
    IN IF RLess(One, s) THEN One ELSE IF RLess(s, <<1, 20>>) THEN <<1, 20>> ELSE s

Grey3(a) == <<Grey(a), Grey(a), Grey(a)>>

\* the four colours of the LOD palette, bands 0 .. 3
LodPalette ==
    << << <<2, 5>>, One, <<3, 5>> >>,
       << One, <<17, 20>>, <<2, 5>> >>,
       << One, <<9, 20>>, <<7, 20>> >>,
       << <<3, 5>>, <<7, 10>>, One >> >>

InUnitClosed(x) == RLeq(Zero, x) /\ RLeq(x, One)
InSignedUnit(x) == RLeq(<<-1, 1>>, x) /\ RLeq(x, One)

C2_PackedOnlyWhenBothSwitches ==
    pc = "getSplatColor" =>
        IF usePackedColors /\ hasPackedColorsBuffer
        THEN /\ packedRead
             /\ ret = unpackSnorm10a2ToHalf(packedColors[splatIndex + 1])
        ELSE /\ ~packedRead
             /\ ret = splats[splatIndex + 1]

C2_Witness ==
    /\ pc = "getSplatColor"
    /\ usePackedColors
    /\ ~hasPackedColorsBuffer
    /\ packedColors = <<>>
    /\ ~packedRead
    /\ ret = splats[splatIndex + 1]

\* C3: a quantised colour with R, G, B in -511 .. 511 and A in 0 .. 3, packed
\* and then decoded by unpackSnorm10a2ToHalf, yields exactly
\* (R/511, G/511, B/511, A/3).
C3_RoundTrip ==
    (/\ pc = "unpackSnorm10a2ToHalf"
     /\ \A i \in 1 .. 3 : quantized[i] \in -511 .. 511) =>
        ret = <<Rat(quantized[1], 511), Rat(quantized[2], 511),
                Rat(quantized[3], 511), Rat(quantized[4], 3)>>

C3_Witness ==
    /\ pc = "unpackSnorm10a2ToHalf"
    /\ quantized = <<-511, 511, 0, 1>>
    /\ ret = << <<-1, 1>>, One, Zero, <<1, 3>> >>

\* C4: for every packed word each of the R, G, B components returned by
\* unpackSnorm10a2ToHalf lies in [-1, 1] and the alpha component in [0, 1].
C4_DecodedInRange ==
    pc = "unpackSnorm10a2ToHalf" =>
        /\ \A i \in 1 .. 3 : InSignedUnit(ret[i])
        /\ InUnitClosed(ret[4])

\* C5: in shadeSplatDithered the fragment is discarded exactly when its base
\* alpha is strictly less than the dither threshold; a fragment that is kept
\* is written with alpha 1 and the shaded rgb, not multiplied by alpha.
C5_DitheredAlphaTest ==
    pc = "shadeSplatDithered" =>
        /\ discarded <=> (alpha[1] * threshold[2] < threshold[1] * alpha[2])
        /\ ~discarded => ret = <<rgb[1], rgb[2], rgb[3], One>>
        /\ (~discarded /\ in.debugFlags = 0) =>
              <<ret[1], ret[2], ret[3]>> = <<in.color[1], in.color[2], in.color[3]>>

C5_Witness ==
    /\ pc = "shadeSplatDithered"
    /\ ~discarded
    /\ RLess(Zero, alpha)
    /\ RLess(alpha, One)
    /\ RLess(Zero, threshold)
    /\ in.debugFlags = 0
    /\ ret = <<in.color[1], in.color[2], in.color[3], One>>

\* C6: the threshold returned by bayerDither lies in [0, 1) for every screen
\* position and splat id, so a fragment with base alpha 1 never fails the
\* alpha test.
C6_ThresholdInUnitInterval ==
    pc = "bayerDither" =>
        /\ RLeq(Zero, ret)
        /\ RLess(ret, One)
        /\ ~(One[1] * ret[2] < ret[1] * One[2])

\* the sum of the Bayer entry and the temporal noise reached 1 and was wrapped
C6_Witness ==
    /\ pc = "bayerDither"
    /\ pos = <<0, 7>>
    /\ in.splatID = 76
    /\ RLeq(One, RAdd(<<63, 64>>, <<247, 2500>>))
    /\ ret = RAdd(RAdd(<<63, 64>>, <<247, 2500>>), <<-1, 1>>)

\* C7 as stated: with the overdraw bit set the output rgb is the grey value
\* clamp(alpha + 0.05, 0.05, 1) in all three channels and the output alpha is
\* the base alpha.
C7_OverdrawOutputAsStated ==
    (pc \in {"shadeSplat", "shadeSplatDithered"} /\ OverdrawSet) =>
        ret = <<Grey(alpha), Grey(alpha), Grey(alpha), alpha>>

\* C7 amended: with the overdraw bit set the shaded rgb is the grey value
\* clamp(alpha + 0.05, 0.05, 1) in all three channels; shadeSplat returns it
\* premultiplied, (alpha * grey, alpha), and shadeSplatDithered returns
\* (grey, 1).
C7_OverdrawOutput ==
    /\ (pc \in {"shadeSplat", "shadeSplatDithered"} /\ OverdrawSet) =>
          rgb = Grey3(alpha)
    /\ (pc = "shadeSplat" /\ OverdrawSet) =>
          ret = <<RMul(alpha, Grey(alpha)), RMul(alpha, Grey(alpha)),
                  RMul(alpha, Grey(alpha)), alpha>>
    /\ (pc = "shadeSplatDithered" /\ OverdrawSet) =>
          ret = <<Grey(alpha), Grey(alpha), Grey(alpha), One>>

\* overdraw bit only, base alpha 0.5: rgb 0.5 * 0.55 = 0.275, alpha 0.5
C7_Witness ==
    /\ pc = "shadeSplat"
    /\ in.debugFlags = DebugFlagOverdraw
    /\ alpha = <<1, 2>>
    /\ ret = << <<11, 40>>, <<11, 40>>, <<11, 40>>, <<1, 2>> >>

\* C8 as stated: whenever the LOD-tint bit is set the shaded rgb is the
\* palette colour of the fragment's LOD band, for every value of the overdraw
\* bit.
C8_LodTintAsStated ==
    (pc \in {"shadeSplat", "shadeSplatDithered"} /\ LodTintSet) =>
        rgb = LodPalette[in.lodBand + 1]

\* C8 amended: with the LOD-tint bit set and the overdraw bit clear the shaded
\* rgb is the palette colour of the fragment's LOD band; with both bits set
\* it is the overdraw grey.
C8_LodTint ==
    (pc \in {"shadeSplat", "shadeSplatDithered"} /\ LodTintSet) =>
        rgb = IF OverdrawSet THEN Grey3(alpha) ELSE LodPalette[in.lodBand + 1]

C8_Witness ==
    /\ pc = "shadeSplatDithered"
    /\ in.debugFlags = DebugFlagLodTint
    /\ in.lodBand = 2
    /\ rgb = << One, <<9, 20>>, <<7, 20>> >>
    /\ rgb # <<in.color[1], in.color[2], in.color[3]>>

\* C9: in shadeSplatDithered a fragment whose base alpha is 0 is discarded,
\* for every screen position and splat id.
C9_ZeroAlphaDiscarded ==
    (pc = "shadeSplatDithered" /\ alpha = Zero) => discarded

\* C10: bayerDither reduces each floored coordinate to 0 .. 7, the index
\* pos.y * 8 + pos.x lies in 0 .. 63, and the entry read has period 8 in x and
\* y.
C10_BayerIndex ==
    pc = "bayerDither" =>
        /\ pos[1] \in 0 .. 7
        /\ pos[2] \in 0 .. 7
        /\ pos[2] * 8 + pos[1] \in 0 .. 63
        /\ pos = <<(screenPos[1][1] \div screenPos[1][2]) % 8,
                   (screenPos[2][1] \div screenPos[2][2]) % 8>>
        /\ \A i \in -2 .. 2, j \in -2 .. 2 :
              bayerIndex(bayerPos(<<RAdd(screenPos[1], <<8 * i, 1>>),
                                    RAdd(screenPos[2], <<8 * j, 1>>)>>))
                  = pos[2] * 8 + pos[1]

C10_Witness ==
    /\ pc = "bayerDither"
    /\ screenPos = << <<-17, 2>>, <<-1, 2>> >>
    /\ pos = <<7, 7>>

====
